---- MODULE Spec2Model ----
(***************************************************************************)
(* A model of blender_picocad.py: the picoCAD exporter of a Blender scene. *)
(*                                                                         *)
(* Colours are triples of integers in thousandths (1000 = 1.0); the        *)
(* Euclidean distance is compared through its square, which orders the     *)
(* same way as its square root.  Text is a sequence of pieces (strings);   *)
(* every character that a slice of the source can remove is a piece of     *)
(* its own, so output[:-2] and output[:-1] drop whole pieces.              *)
(***************************************************************************)
EXTENDS Integers, Sequences, FiniteSets, TLC

VARIABLES
  COLOR_CACHE,  \* the module-level cache: colour -> <<index, code>>
  calls,        \* the color_to_picocad calls of the latest step: colour, result, cache hit
  nCalls,       \* direct calls of the quantizer made so far
  pc,           \* where execute stands: idle, loop, texture, write, done, failed
  exports,      \* calls of execute so far
  host,         \* the blend file and world the running export reads
  objects,      \* bpy.data.objects of the running export, in iteration order
  idx,          \* the position of the next object of the loop
  image,        \* execute's local `image`
  width,        \* execute's local `width` (0 stands for None)
  height,       \* execute's local `height` (0 stands for None)
  output,       \* execute's local `output`
  warnings,     \* the messages of self.report({'WARNING'}, ...) of the running export
  file          \* what the running export has written to self.filepath, one entry per write

vars ==
  <<COLOR_CACHE, calls, nCalls, pc, exports, host, objects, idx, image, width, height,
    output, warnings, file>>

(***************************************************************************)
(* Bounds of the model.                                                    *)
(***************************************************************************)
MaxCalls == 2
MaxObjects == 2
MaxExports == 2

(***************************************************************************)
(* The palette (COLOR_MAP), in thousandths, in definition order.           *)
(* Index i of the source is position i + 1 here.                           *)
(***************************************************************************)
COLOR_MAP ==
  << <<"0", <<0, 0, 0>> >>,
     <<"1", <<12, 24, 87>> >>,
     <<"2", <<209, 19, 87>> >>,
     <<"3", <<0, 242, 82>> >>,
     <<"4", <<407, 84, 37>> >>,
     <<"5", <<114, 95, 78>> >>,
     <<"6", <<539, 546, 571>> >>,
     <<"7", <<1000, 880, 807>> >>,
     <<"8", <<1000, 0, 74>> >>,
     <<"9", <<1000, 366, 0>> >>,
     <<"a", <<1000, 839, 20>> >>,
     <<"b", <<0, 776, 37>> >>,
     <<"c", <<22, 418, 1000>> >>,
     <<"d", <<227, 181, 332>> >>,
     <<"e", <<1000, 184, 392>> >>,
     <<"f", <<1000, 604, 402>> >> >>

\* color_distance, squared: sqrt is monotone, so < on squares is < on distances.
color_distance(color1, color2) ==
  (color2[1] - color1[1]) * (color2[1] - color1[1])
  + (color2[2] - color1[2]) * (color2[2] - color1[2])
  + (color2[3] - color1[3]) * (color2[3] - color1[3])

\* The state of the scan before its first iteration: min_dist = inf,
\* closest_color_index = 0, closest_color = 0 (an integer in the source, never
\* returned because the first entry always replaces it; "0" stands for it here).
ScanStart == [inf |-> TRUE, min_dist |-> 0, closest_color_index |-> 0, closest_color |-> "0"]

\* A mutant of Closer: <= in place of <, which keeps the last of equal distances.
CloserOrEqual(dist, st) == st.inf \/ dist <= st.min_dist

\* The test `dist < min_dist` of the scan.
Closer(dist, st) == st.inf \/ dist < st.min_dist

\* One iteration of the scan, on entry i (1-based) of COLOR_MAP.
ScanStep(color, i, st) ==
  LET dist == color_distance(color, COLOR_MAP[i][2])
  IN  IF Closer(dist, st)
        THEN [inf |-> FALSE, min_dist |-> dist,
              closest_color_index |-> i - 1, closest_color |-> COLOR_MAP[i][1]]
        ELSE st

RECURSIVE ScanFrom(_, _, _)
ScanFrom(color, i, st) ==
  IF i > Len(COLOR_MAP) THEN st ELSE ScanFrom(color, i + 1, ScanStep(color, i, st))

\* The uncached search of color_to_picocad: the pair it stores and returns.
Scan(color) ==
  LET st == ScanFrom(color, 1, ScanStart)
  IN  <<st.closest_color_index, st.closest_color>>

\* A mutant of color_hash: the key drops the blue component.
color_hash_rg(color) == <<color[1], color[2], 0>>

\* The cache key of a colour: (color.r, color.g, color.b).
color_hash(color) == color

\* color_to_picocad on cache `cache`: the returned pair, the cache after the
\* call, and whether the call was served from the cache.
color_to_picocad(cache, color) ==
  LET k == color_hash(color)
  IN  IF k \in DOMAIN cache
        THEN [ret |-> cache[k], cache |-> cache, hit |-> TRUE]
        ELSE LET r == Scan(color)
             IN  [ret |-> r, cache |-> (k :> r) @@ cache, hit |-> FALSE]

color_to_picocad_index(cache, color) == color_to_picocad(cache, color).ret[1]

color_to_picocad_color(cache, color) == color_to_picocad(cache, color).ret[2]

PaletteColors == {COLOR_MAP[i][2] : i \in 1..Len(COLOR_MAP)}

\* Colours at equal distance from two palette entries that are both nearest.
TieColors == {<<135, 515, 620>>, <<280, 260, 120>>}

\* The inputs of direct calls of the quantizer.
QuantizeInputs ==
  PaletteColors \cup TieColors
    \cup {<<1000, 0, 0>>, <<1000, 1000, 1000>>, <<500, 500, 500>>, <<0, 0, 1000>>}

EmptyCache == [c \in {} |-> <<0, "0">>]

\* color_to_picocad for each colour of `colors` in turn: the cache after the
\* calls and the record of each call.
RECURSIVE CallAll(_, _)
CallAll(cache, colors) ==
  IF colors = <<>>
    THEN [cache |-> cache, calls |-> <<>>]
    ELSE LET r    == color_to_picocad(cache, Head(colors))
             rest == CallAll(r.cache, Tail(colors))
         IN  [cache |-> rest.cache,
              calls |-> <<[color |-> Head(colors), ret |-> r.ret, hit |-> r.hit]>> \o rest.calls]

(***************************************************************************)
(* Text.                                                                   *)
(***************************************************************************)
\* The concatenation of a sequence of sequences (by halves, to keep the nesting shallow).
RECURSIVE Flatten(_)
Flatten(ss) ==
  IF Len(ss) = 0 THEN <<>>
  ELSE IF Len(ss) = 1 THEN ss[1]
  ELSE LET half == Len(ss) \div 2
       IN  Flatten(SubSeq(ss, 1, half)) \o Flatten(SubSeq(ss, half + 1, Len(ss)))

\* s[::-1]
Reverse(s) == [i \in 1..Len(s) |-> s[Len(s) + 1 - i]]

\* s[:-n]
DropLast(s, n) == SubSeq(s, 1, Len(s) - n)

\* sep.join(parts), each part a sequence of pieces.
Join(sep, parts) ==
  Flatten([i \in 1..Len(parts) |-> IF i < Len(parts) THEN parts[i] \o <<sep>> ELSE parts[i]])

\* Runs of equal characters, written out.
Runs(rs) == Flatten([i \in 1..Len(rs) |-> [j \in 1..rs[i][2] |-> rs[i][1]]])

\* n / d rounded to the nearest integer, halves to the even one (n >= 0, d > 0):
\* the rounding of '{:.1f}' on a value that is exact in binary.
RoundHalfEven(n, d) ==
  LET q == n \div d
      r == n % d
  IN  IF 2 * r > d \/ (2 * r = d /\ q % 2 = 1) THEN q + 1 ELSE q

\* '{:.1f}'.format(x) for x given in tenths.
Fmt1(tenths) ==
  IF tenths < 0
    THEN "-" \o ToString((-tenths) \div 10) \o "." \o ToString((-tenths) % 10)
    ELSE ToString(tenths \div 10) \o "." \o ToString(tenths % 10)

\* '{}'.format(x) for a whole-numbered float x.
FmtFloat(n) == ToString(n) \o ".0"

(***************************************************************************)
(* DEFAULT_TEXTURE: 120 lines of 128 characters, joined by newlines.       *)
(***************************************************************************)
DefaultRowA ==
  Runs(<< <<"0", 8>>, <<"e", 4>>, <<"8", 4>>, <<"e", 4>>, <<"8", 4>>, <<"a", 4>>, <<"9", 4>>,
          <<"a", 4>>, <<"9", 4>>, <<"b", 4>>, <<"3", 4>>, <<"b", 4>>, <<"3", 4>>, <<"c", 4>>,
          <<"d", 4>>, <<"c", 4>>, <<"d", 4>>, <<"f", 4>>, <<"e", 4>>, <<"f", 4>>, <<"e", 4>>,
          <<"7", 4>>, <<"6", 4>>, <<"7", 4>>, <<"6", 4>>, <<"5", 4>>, <<"6", 4>>, <<"5", 4>>,
          <<"6", 4>>, <<"0", 8>> >>)

DefaultRowB ==
  Runs(<< <<"0", 8>>, <<"8", 4>>, <<"e", 4>>, <<"8", 4>>, <<"e", 4>>, <<"9", 4>>, <<"a", 4>>,
          <<"9", 4>>, <<"a", 4>>, <<"3", 4>>, <<"b", 4>>, <<"3", 4>>, <<"b", 4>>, <<"d", 4>>,
          <<"c", 4>>, <<"d", 4>>, <<"c", 4>>, <<"e", 4>>, <<"f", 4>>, <<"e", 4>>, <<"f", 4>>,
          <<"6", 4>>, <<"7", 4>>, <<"6", 4>>, <<"7", 4>>, <<"6", 4>>, <<"5", 4>>, <<"6", 4>>,
          <<"5", 4>>, <<"0", 8>> >>)

DefaultRowZ == Runs(<< <<"0", 128>> >>)

\* Lines 250-253, 258-261 repeat row A, lines 254-257, 262-265 row B, lines 266-369 row Z.
DefaultRows ==
  [k \in 1..120 |->
     IF k > 16 THEN DefaultRowZ
     ELSE IF ((k - 1) \div 4) % 2 = 0 THEN DefaultRowA ELSE DefaultRowB]

DEFAULT_TEXTURE == Join("\n", DefaultRows)

(***************************************************************************)
(* Images.  An image has a size and four colours, one per quadrant; pixel  *)
(* p (0-based, row-major from the image's first row) has the colour of     *)
(* the quadrant it lies in.                                                *)
(***************************************************************************)
NoImage == [name |-> "None", size |-> <<0, 0>>, colors |-> <<>>]

QuadrantColors == << <<1000, 0, 0>>, <<0, 0, 1000>>, <<1000, 1000, 1000>>, <<0, 0, 0>> >>

Image128 == [name |-> "tex128", size |-> <<128, 128>>, colors |-> QuadrantColors]
ImageSmall == [name |-> "tex20x8", size |-> <<20, 8>>, colors |-> QuadrantColors]
ImageBig == [name |-> "tex256x2", size |-> <<256, 2>>, colors |-> QuadrantColors]

\* len(image.pixels) / 4
PixelCount(img) == img.size[1] * img.size[2]

Quadrant(img, p) ==
  LET x == p % img.size[1]
      y == p \div img.size[1]
  IN  1 + (IF 2 * x >= img.size[1] THEN 1 ELSE 0) + (IF 2 * y >= img.size[2] THEN 2 ELSE 0)

\* (r, g, b) of pixel p: image.pixels[4p], [4p + 1], [4p + 2].
PixelColor(img, p) == img.colors[Quadrant(img, p)]

\* The distinct colours of the image's pixels, in order of first appearance.
DistinctColors(img) ==
  IF PixelCount(img) = 0 THEN <<>>
  ELSE LET qs == SelectSeq(<<1, 2, 3, 4>>,
                           LAMBDA q : /\ (q \in {2, 4} => img.size[1] >= 2)
                                      /\ (q \in {3, 4} => img.size[2] >= 2))
       IN  [i \in 1..Len(qs) |-> img.colors[qs[i]]]

(***************************************************************************)
(* Scenes.  Coordinates are in tenths, locations whole numbers, UVs in     *)
(* halves; a rotation is a unit quaternion <<w, x, y, z>> with integer     *)
(* components.                                                             *)
(***************************************************************************)
TexNode(img, linked) ==
  [type |-> "TEX_IMAGE", linked |-> linked, image |-> img, base_color |-> <<0, 0, 0>>]

BsdfNode(color, linked) ==
  [type |-> "BSDF_PRINCIPLED", linked |-> linked, image |-> NoImage, base_color |-> color]

Material(culling, use_nodes, nodes) ==
  [use_backface_culling |-> culling, use_nodes |-> use_nodes, nodes |-> nodes]

NoMaterial == Material(FALSE, FALSE, <<>>)

Triangle == [vertices |-> <<0, 1, 2>>, uv |-> << <<0, 0>>, <<2, 0>>, <<0, 1>> >>]

\* A face of two vertex indices (a mesh built without validation can hold one).
Segment == [vertices |-> <<0, 1>>, uv |-> << <<0, 0>>, <<2, 2>> >>]

TriangleVertices == << <<0, 0, 0>>, <<10, 0, 0>>, <<0, 15, 0>> >>

IdentityQuat == <<1, 0, 0, 0>>
HalfTurnZ == <<0, 0, 0, 1>>

Mesh(slots, material, uv_layers, polygons) ==
  [type |-> "MESH", location |-> <<1, 0, -2>>, rotation_mode |-> "XYZ",
   rotation_quaternion |-> IdentityQuat, scale |-> <<1, 1, 1>>,
   material_slots |-> slots, material |-> material,
   vertices |-> TriangleVertices, polygons |-> polygons, uv_layers |-> uv_layers,
   mesh_in_data |-> TRUE]

KPlain == Mesh(0, NoMaterial, 0, <<Triangle>>)
KRed ==
  [Mesh(1, Material(TRUE, TRUE, <<BsdfNode(<<1000, 0, 0>>, TRUE)>>), 1, <<Triangle, Triangle>>)
     EXCEPT !.rotation_quaternion = HalfTurnZ, !.scale = <<2, 1, 1>>,
            !.rotation_mode = "QUATERNION"]
KTex128 ==
  Mesh(1, Material(FALSE, TRUE, <<TexNode(Image128, TRUE), BsdfNode(<<1000, 1000, 1000>>, TRUE)>>),
       1, <<Triangle>>)
KTexSmall == Mesh(1, Material(FALSE, TRUE, <<TexNode(ImageSmall, TRUE)>>), 1, <<Triangle>>)
KTexBig == Mesh(1, Material(FALSE, TRUE, <<TexNode(ImageBig, TRUE)>>), 1, <<Triangle>>)
KNoNodes == Mesh(1, Material(FALSE, FALSE, <<>>), 1, <<Triangle>>)
KUnlinked ==
  Mesh(1, Material(TRUE, TRUE, <<TexNode(Image128, FALSE), BsdfNode(<<1000, 0, 0>>, FALSE)>>),
       0, <<Triangle>>)
KSegment == Mesh(0, NoMaterial, 0, <<Segment>>)
KCamera == [Mesh(0, NoMaterial, 0, <<>>) EXCEPT !.type = "CAMERA", !.vertices = <<>>]

\* A mesh object without geometry: no vertex, no face.
KEmpty == [Mesh(0, NoMaterial, 0, <<>>) EXCEPT !.vertices = <<>>]

\* A mesh object whose mesh data is not listed under the object's name in
\* bpy.data.meshes (the data block was renamed, or is shared under another name).
KRenamed == [Mesh(0, NoMaterial, 0, <<Triangle>>) EXCEPT !.mesh_in_data = FALSE]

ObjectKinds ==
  {KPlain, KRed, KTex128, KTexSmall, KTexBig, KNoNodes, KUnlinked, KSegment, KCamera,
   KEmpty, KRenamed}

\* bpy.data.objects.items() of a scene: names are unique and in order.
Named(kinds) == [i \in 1..Len(kinds) |-> [name |-> "ob" \o ToString(i), object |-> kinds[i]]]

Scenes == {Named(ks) : ks \in UNION {[1..n -> ObjectKinds] : n \in 0..MaxObjects}}

\* The blend file's name without its extension, and the world's colour.
Hosts ==
  {[stem |-> "", world_color |-> <<1000, 1000, 1000>>],
   [stem |-> "ship", world_color |-> <<135, 515, 620>>]}

(***************************************************************************)
(* The numbers of execute.                                                 *)
(***************************************************************************)
DefaultMeshColor == 6
DefaultSize == 128
MaxTextureSize == 128
TextureColumns == 128

NodesWarning ==
  "Material must use nodes to find image texture or mesh color. Ignoring texture export and mesh color."

SizeWarning == "Image texture must be 128x128 or smaller. Ignoring texture export."

\* The position of the first node of `type` whose output is linked, or 0.
FirstLinked(nodes, type) ==
  LET hits == {i \in 1..Len(nodes) : nodes[i].type = type /\ nodes[i].linked}
  IN  IF hits = {} THEN 0 ELSE CHOOSE i \in hits : \A j \in hits : i <= j

\* `image` after the search for a linked image texture node (if not image: ...).
FindImage(img, nodes) ==
  IF img = NoImage
    THEN LET t == FirstLinked(nodes, "TEX_IMAGE")
         IN  IF t # 0 THEN nodes[t].image ELSE NoImage
    ELSE img

\* A mutant of MaterialWarnings: a warning also when the node graph resolves nothing.
MaterialWarningsUnresolved(material) ==
  IF ~material.use_nodes
       \/ (FirstLinked(material.nodes, "TEX_IMAGE") = 0
             /\ FirstLinked(material.nodes, "BSDF_PRINCIPLED") = 0)
    THEN <<NodesWarning>> ELSE <<>>

\* The warnings of the material part: only the else branch of `if material.use_nodes`.
MaterialWarnings(material) == IF material.use_nodes THEN <<>> ELSE <<NodesWarning>>

\* The material part of one loop iteration: double_sided, mesh_color, image,
\* the cache, the calls of the quantizer and the warnings it reports.
MaterialStep(obj, img, cache) ==
  LET unset == [double_sided |-> TRUE, mesh_color |-> DefaultMeshColor, image |-> img,
                cache |-> cache, calls |-> <<>>, warnings |-> <<>>]
  IN  IF obj.material_slots = 0 THEN unset
      ELSE LET material == obj.material
               sided    == [unset EXCEPT !.double_sided = ~material.use_backface_culling,
                                         !.warnings = MaterialWarnings(material)]
           IN  IF ~material.use_nodes
                 THEN sided
                 ELSE LET img1 == FindImage(img, material.nodes)
                          b    == FirstLinked(material.nodes, "BSDF_PRINCIPLED")
                      IN  IF img1 = NoImage /\ b # 0
                            THEN LET r == CallAll(cache, <<material.nodes[b].base_color>>)
                                 IN  [sided EXCEPT !.image = img1,
                                                   !.mesh_color = r.calls[1].ret[1],
                                                   !.cache = r.cache, !.calls = r.calls]
                            ELSE [sided EXCEPT !.image = img1]

\* The texture size part of one loop iteration (if not width or not height: ...).
SizeStep(img, w, h) ==
  IF w # 0 /\ h # 0
    THEN [image |-> img, width |-> w, height |-> h, warnings |-> <<>>]
    ELSE IF img = NoImage
      THEN [image |-> img, width |-> DefaultSize, height |-> DefaultSize, warnings |-> <<>>]
      ELSE IF img.size[1] <= MaxTextureSize /\ img.size[2] <= MaxTextureSize
        THEN [image |-> img, width |-> img.size[1], height |-> img.size[2], warnings |-> <<>>]
        ELSE [image |-> NoImage, width |-> DefaultSize, height |-> DefaultSize,
              warnings |-> <<SizeWarning>>]

\* Hamilton product of two quaternions.
QuatMul(a, b) ==
  << a[1] * b[1] - a[2] * b[2] - a[3] * b[3] - a[4] * b[4],
     a[1] * b[2] + a[2] * b[1] + a[3] * b[4] - a[4] * b[3],
     a[1] * b[3] - a[2] * b[4] + a[3] * b[1] + a[4] * b[2],
     a[1] * b[4] + a[2] * b[3] - a[3] * b[2] + a[4] * b[1] >>

\* vertex.rotate(q) for a unit quaternion q.
Rotate(v, q) ==
  LET w == q[1]
      x == q[2]
      y == q[3]
      z == q[4]
  IN  << (1 - 2 * (y * y + z * z)) * v[1] + 2 * (x * y - w * z) * v[2] + 2 * (x * z + w * y) * v[3],
         2 * (x * y + w * z) * v[1] + (1 - 2 * (x * x + z * z)) * v[2] + 2 * (y * z - w * x) * v[3],
         2 * (x * z - w * y) * v[1] + 2 * (y * z + w * x) * v[2] + (1 - 2 * (x * x + y * y)) * v[3] >>

\* The baked vertex: rotated, then scaled per axis.
Bake(v, obj) ==
  LET rotation == QuatMul(obj.rotation_quaternion, IdentityQuat)
      r        == Rotate(v, rotation)
  IN  <<r[1] * obj.scale[1], r[2] * obj.scale[2], r[3] * obj.scale[3]>>

VertexText(v) == <<"  {", Fmt1(v[1]), ",", Fmt1(v[2]), ",", Fmt1(v[3]), "}", ",", "\n">>

\* One UV coordinate: uv * size / 8 with uv in halves, formatted '{:.1f}'.
UvText(half, size) == Fmt1(RoundHalfEven(half * size * 10, 16))

\* The text of one face: its indices, dbl, c and uv.
FaceRecord(f, obj, double_sided, mesh_color, w, h) ==
  LET head == <<"  {">> \o Join(",", [i \in 1..Len(f.vertices) |-> <<ToString(f.vertices[i] + 1)>>])
                \o <<", ">>
      dbl  == IF double_sided THEN <<"dbl=1", ", ">> ELSE <<>>
      col  == <<"c=", ToString(mesh_color), ", ">>
      uvs  == IF obj.uv_layers > 0
                THEN DropLast(<<"uv=", "{">>
                                \o Flatten([i \in 1..Len(f.uv) |->
                                     <<UvText(f.uv[i][1], w), ",", UvText(f.uv[i][2], h), ",">>]),
                              1)
                     \o <<"} }", ",", "\n">>
                ELSE <<"uv=", "{">> \o Join(",", [i \in 1..Len(f.vertices) |-> <<"0", ",", "0">>])
                     \o <<"} }", ",", "\n">>
  IN  head \o dbl \o col \o uvs

\* A mutant of FaceText: a face of fewer than 3 vertex indices is left out.
FaceTextSkipDegenerate(f, obj, double_sided, mesh_color, w, h) ==
  IF Len(f.vertices) < 3 THEN <<>> ELSE FaceRecord(f, obj, double_sided, mesh_color, w, h)

\* The body of `for f in data.polygons`: every face is written, whatever its size.
FaceText(f, obj, double_sided, mesh_color, w, h) ==
  FaceRecord(f, obj, double_sided, mesh_color, w, h)

\* `output` after the block of one mesh object has been added to `out`.
MeshText(out, name, obj, double_sided, mesh_color, w, h) ==
  LET o1 == out \o <<"{", "\n">>
                \o <<" name='", name, "', pos={", FmtFloat(obj.location[1]), ",",
                     FmtFloat(obj.location[2]), ",", FmtFloat(obj.location[3]),
                     "}, rot={0,0,0}", ",", "\n">>
                \o <<" v=", "{", "\n">>
                \o Flatten([i \in 1..Len(obj.vertices) |-> VertexText(Bake(obj.vertices[i], obj))])
      o2 == DropLast(o1, 2) \o <<"\n">> \o <<" }", ",", "\n">>
                \o <<" f=", "{", "\n">>
                \o Flatten([i \in 1..Len(obj.polygons) |->
                              FaceText(obj.polygons[i], obj, double_sided, mesh_color, w, h)])
  IN  DropLast(o2, 2) \o <<"\n">> \o <<" }", "\n">> \o <<"}", ",", "\n">>

\* The code of each pixel's colour, given the calls made for the distinct colours.
CodeOf(color, made) == made[CHOOSE i \in 1..Len(made) : made[i].color = color].ret[2]

\* A mutant of TextureRows: the row is not reversed before it is added (column, not column[::-1]).
TextureRowsMirrored(img, made) ==
  LET rows == PixelCount(img) \div TextureColumns
  IN  [j \in 1..(rows * (TextureColumns + 1)) |->
         LET r == (j - 1) \div (TextureColumns + 1)
             c == (j - 1) % (TextureColumns + 1)
         IN  IF c = TextureColumns THEN "\n"
             ELSE CodeOf(PixelColor(img, TextureColumns * r + c), made)]

\* `texture` after the pixel loop: each full row of TextureColumns codes reversed,
\* followed by a newline; an incomplete last row is left in `column` and dropped.
TextureRows(img, made) ==
  LET rows == PixelCount(img) \div TextureColumns
  IN  [j \in 1..(rows * (TextureColumns + 1)) |->
         LET r == (j - 1) \div (TextureColumns + 1)
             c == (j - 1) % (TextureColumns + 1)
         IN  IF c = TextureColumns THEN "\n"
             ELSE CodeOf(PixelColor(img, TextureColumns * r + (TextureColumns - 1 - c)), made)]

\* A mutant of TextureText: the trailing newline is not removed.
TextureTextUnstripped(img, made) == Reverse(TextureRows(img, made))

\* texture[:-1][::-1]
TextureText(img, made) == Reverse(DropLast(TextureRows(img, made), 1))

Init ==
  /\ COLOR_CACHE = EmptyCache
  /\ calls = <<>>
  /\ nCalls = 0
  /\ pc = "idle"
  /\ exports = 0
  /\ host \in Hosts
  /\ objects = <<>>
  /\ idx = 1
  /\ image = NoImage
  /\ width = 0
  /\ height = 0
  /\ output = <<>>
  /\ warnings = <<>>
  /\ file = <<>>

\* A mutant of CacheAtEntry: execute starts from a cleared cache.
CacheCleared(cache) == EmptyCache

\* The cache execute starts with: COLOR_CACHE as the module holds it; nothing clears it.
CacheAtEntry(cache) == cache

exportVars == <<pc, exports, host, objects, idx, image, width, height, output, warnings, file>>

\* A call color_to_picocad(color) from outside an export.
Quantize(color) ==
  /\ nCalls < MaxCalls
  /\ LET r == color_to_picocad(COLOR_CACHE, color)
     IN  /\ COLOR_CACHE' = r.cache
         /\ calls' = <<[color |-> color, ret |-> r.ret, hit |-> r.hit]>>
  /\ nCalls' = nCalls + 1
  /\ UNCHANGED exportVars

\* execute, up to the loop over the objects: the file name, the background
\* colour, the locals and the header.
Execute(h, sc) ==
  /\ pc \in {"idle", "done", "failed"}
  /\ exports < MaxExports
  /\ LET filename == IF h.stem = "" THEN "untitled" ELSE h.stem
         r        == CallAll(CacheAtEntry(COLOR_CACHE), <<h.world_color>>)
     IN  /\ COLOR_CACHE' = r.cache
         /\ calls' = r.calls
         /\ output' = <<"picocad;", filename, ";16;", ToString(r.calls[1].ret[1]), ";0", "\n">>
                        \o <<"{", "\n">>
  /\ host' = h
  /\ objects' = sc
  /\ idx' = 1
  /\ image' = NoImage
  /\ width' = 0
  /\ height' = 0
  /\ warnings' = <<>>
  /\ file' = <<>>
  /\ exports' = exports + 1
  /\ pc' = "loop"
  /\ UNCHANGED nCalls

\* One iteration of the loop on an object that is no mesh: continue.
SkipObject ==
  /\ pc = "loop"
  /\ idx <= Len(objects)
  /\ objects[idx].object.type # "MESH"
  /\ idx' = idx + 1
  /\ calls' = <<>>
  /\ UNCHANGED <<COLOR_CACHE, nCalls, pc, exports, host, objects, image, width, height,
                 output, warnings, file>>

\* One iteration of the loop on a mesh object.
ExportObject ==
  /\ pc = "loop"
  /\ idx <= Len(objects)
  /\ objects[idx].object.type = "MESH"
  /\ objects[idx].object.mesh_in_data
  /\ LET obj == objects[idx].object
         m   == MaterialStep(obj, image, COLOR_CACHE)
         s   == SizeStep(m.image, width, height)
         rot == [obj EXCEPT !.rotation_mode = "QUATERNION"]
     IN  /\ COLOR_CACHE' = m.cache
         /\ calls' = m.calls
         /\ image' = s.image
         /\ width' = s.width
         /\ height' = s.height
         /\ warnings' = warnings \o m.warnings \o s.warnings
         /\ objects' = [objects EXCEPT ![idx].object = rot]
         /\ output' = MeshText(output, objects[idx].name, rot, m.double_sided, m.mesh_color,
                               s.width, s.height)
  /\ idx' = idx + 1
  /\ UNCHANGED <<nCalls, pc, exports, host, file>>

\* One iteration of the loop on a mesh object whose name is no key of
\* bpy.data.meshes: the lookup raises KeyError and execute ends there.
RaiseKeyError ==
  /\ pc = "loop"
  /\ idx <= Len(objects)
  /\ objects[idx].object.type = "MESH"
  /\ ~objects[idx].object.mesh_in_data
  /\ pc' = "failed"
  /\ calls' = <<>>
  /\ UNCHANGED <<COLOR_CACHE, nCalls, exports, host, objects, idx, image, width, height,
                 output, warnings, file>>

\* After the loop: the last separator is removed and the object list closed.
CloseObjects ==
  /\ pc = "loop"
  /\ idx > Len(objects)
  /\ output' = DropLast(output, 2) \o <<"\n">> \o <<"}%", "\n">>
  /\ pc' = "texture"
  /\ calls' = <<>>
  /\ UNCHANGED <<COLOR_CACHE, nCalls, exports, host, objects, idx, image, width, height,
                 warnings, file>>

\* The texture block: the image converted, or the default texture.
ConvertTexture ==
  /\ pc = "texture"
  /\ IF image # NoImage
       THEN LET r == CallAll(COLOR_CACHE, DistinctColors(image))
            IN  /\ COLOR_CACHE' = r.cache
                /\ calls' = r.calls
                /\ output' = output \o TextureText(image, r.calls)
       ELSE /\ output' = output \o DEFAULT_TEXTURE
            /\ calls' = <<>>
            /\ UNCHANGED COLOR_CACHE
  /\ pc' = "write"
  /\ UNCHANGED <<nCalls, exports, host, objects, idx, image, width, height, warnings, file>>

\* A mutant of WriteFile: the file is written before the texture block is added.
WriteFileEarly ==
  /\ pc = "texture"
  /\ file' = Append(file, output)
  /\ pc' = "done"
  /\ calls' = <<>>
  /\ UNCHANGED <<COLOR_CACHE, nCalls, exports, host, objects, idx, image, width, height,
                 output, warnings>>

\* open(self.filepath, 'w') and f.write(output); execute returns {'FINISHED'}.
WriteFile ==
  /\ pc = "write"
  /\ file' = Append(file, output)
  /\ pc' = "done"
  /\ calls' = <<>>
  /\ UNCHANGED <<COLOR_CACHE, nCalls, exports, host, objects, idx, image, width, height,
                 output, warnings>>

Next ==
  \/ \E h \in Hosts, sc \in Scenes : Execute(h, sc)
  \/ SkipObject
  \/ ExportObject
  \/ RaiseKeyError
  \/ CloseObjects
  \/ ConvertTexture
  \/ WriteFile

Spec == Init /\ [][Next]_vars

NextQuantizer == \E color \in QuantizeInputs : Quantize(color)

SpecQuantizer == Init /\ [][NextQuantizer]_vars

(***************************************************************************)
(* Reading an emitted document.                                            *)
(***************************************************************************)
Positions(doc, piece) == {i \in 1..Len(doc) : doc[i] = piece}

\* The k-th smallest element of a set of numbers.
Nth(S, k) == CHOOSE i \in S : Cardinality({j \in S : j <= i}) = k

\* The positions, in the scene, of the mesh objects.
MeshPositions(objs) == {i \in 1..Len(objs) : objs[i].object.type = "MESH"}

\* The document up to and including its closing marker (all of it while it has none).
Body(doc) ==
  IF Positions(doc, "}%") = {} THEN doc ELSE SubSeq(doc, 1, Nth(Positions(doc, "}%"), 1))

\* The texture block: what follows the closing marker and its newline.
TextureBlock(doc) == SubSeq(doc, Nth(Positions(doc, "}%"), 1) + 2, Len(doc))

\* The block of the k-th mesh object of a document body.
Block(body, k) ==
  LET starts == Positions(body, " name='")
      from   == Nth(starts, k)
      to     == IF k < Cardinality(starts) THEN Nth(starts, k + 1) - 1 ELSE Len(body)
  IN  SubSeq(body, from, to)

\* The values of the c= fields of a block, in order.
FaceColors(block) ==
  LET at == Positions(block, "c=")
  IN  [n \in 1..Cardinality(at) |-> block[Nth(at, n) + 1]]

\* The contents of the uv={...} lists of a block, in order.
FaceUvs(block) ==
  LET at    == Positions(block, "uv=")
      close == Positions(block, "} }")
  IN  [n \in 1..Cardinality(at) |-> SubSeq(block, Nth(at, n) + 2, Nth(close, n) - 1)]

\* The index list of the n-th face of a block: the `len` pieces after its "  {".
FaceIndices(block, n, len) ==
  LET faces  == Nth(Positions(block, " f="), 1)
      starts == {p \in Positions(block, "  {") : p > faces}
  IN  IF n > Cardinality(starts) THEN <<>>
      ELSE SubSeq(block, Nth(starts, n) + 1, Nth(starts, n) + len)

\* A text of `rows` lines of `cols` characters, joined by newlines.
IsGrid(text, rows, cols) ==
  IF rows = 0 THEN text = <<>>
  ELSE /\ Len(text) = rows * (cols + 1) - 1
       /\ \A i \in 1..Len(text) : (text[i] = "\n") <=> (i % (cols + 1) = 0)

\* The scene's mesh objects whose loop iteration has run.
Processed == {i \in MeshPositions(objects) : i < idx}

HasLinked(obj, type) ==
  obj.material_slots > 0 /\ obj.material.use_nodes /\ FirstLinked(obj.material.nodes, type) # 0

\* The image of the first linked image texture node among the first n objects.
FirstDiscovered(objs, n) ==
  LET with == {i \in 1..n : objs[i].object.type = "MESH" /\ HasLinked(objs[i].object, "TEX_IMAGE")}
  IN  IF with = {} THEN NoImage
      ELSE LET i == CHOOSE i \in with : \A j \in with : i <= j
           IN  objs[i].object.material.nodes[FirstLinked(objs[i].object.material.nodes, "TEX_IMAGE")].image

Oversized(img) == img.size[1] > 128 \/ img.size[2] > 128

\* The document body an export has built once its loop has ended.
Built == pc \in {"texture", "write", "done"}

\* The block, in the running export's output, of the mesh object at scene position i.
BlockOf(i) ==
  Block(Body(output), Cardinality({j \in MeshPositions(objects) : j <= i}))

(***************************************************************************)
(* C1 (as claimed): when the first linked image texture an export          *)
(* discovers is wider or higher than 128, no image is in use from then     *)
(* on, a warning is recorded and the document ends with the default        *)
(* texture verbatim.  The code violates it: the size is checked only       *)
(* while width and height are unset, and a later object's search finds     *)
(* an image again.                                                         *)
(***************************************************************************)
C1_OversizedTextureDiscarded ==
  (pc \in {"loop", "texture", "write", "done"}
     /\ Oversized(FirstDiscovered(objects, idx - 1)))
    => /\ image = NoImage
       /\ \E n \in DOMAIN warnings : warnings[n] = SizeWarning
       /\ (pc \in {"write", "done"} => TextureBlock(output) = DEFAULT_TEXTURE)

(***************************************************************************)
(* C2 (as claimed): an export of a scene without mesh objects never        *)
(* reaches the write step and writes no file.  The code violates it: the   *)
(* loop body never runs and the file is written all the same.              *)
(***************************************************************************)
C2_EmptySceneWritesNothing ==
  (pc # "idle" /\ MeshPositions(objects) = {}) => (pc \notin {"write", "done"} /\ file = <<>>)

(***************************************************************************)
(* C3 (as claimed): once the loop has met a face of fewer than 3 vertex    *)
(* indices, or a face whose UV entries differ in number from its vertex    *)
(* indices, the export has failed: it builds no document and writes none.  *)
(***************************************************************************)
MalformedFace(f) == Len(f.vertices) < 3 \/ Len(f.uv) # Len(f.vertices)

MalformedMet ==
  \E i \in Processed : \E n \in DOMAIN objects[i].object.polygons :
    MalformedFace(objects[i].object.polygons[n])

C3_MalformedGeometryFails == MalformedMet => (~Built /\ file = <<>>)

(***************************************************************************)
(* C3 (amended): a face of fewer than 3 vertex indices is exported like    *)
(* any other face: its record is written with the indices it has, and the  *)
(* export ends with the file written once, that record in it.              *)
(***************************************************************************)
C3_DegenerateFaceExported ==
  /\ \A i \in Processed : \A n \in DOMAIN objects[i].object.polygons :
       LET f    == objects[i].object.polygons[n]
           text == Join(",", [m \in 1..Len(f.vertices) |-> <<ToString(f.vertices[m] + 1)>>])
       IN  Len(f.vertices) < 3 =>
             FaceIndices(BlockOf(i), n, Len(text) + 1) = text \o <<", ">>
  /\ (MalformedMet /\ pc = "done") => (Len(file) = 1 /\ file[1] = output)

C3_Witness == MalformedMet /\ pc = "done" /\ Len(file) = 1

(***************************************************************************)
(* C4: every call of color_to_picocad returns the index and the code of    *)
(* the palette entry at the least distance from its argument, the lowest   *)
(* index among entries at that distance; a palette colour gets its own     *)
(* index and code.                                                         *)
(***************************************************************************)
\* The lowest palette index (0-based) at the least distance from a colour.
NearestLowest(color) ==
  CHOOSE i \in 1..Len(COLOR_MAP) :
    /\ \A j \in 1..Len(COLOR_MAP) :
         color_distance(color, COLOR_MAP[i][2]) <= color_distance(color, COLOR_MAP[j][2])
    /\ \A j \in 1..(i - 1) :
         color_distance(color, COLOR_MAP[j][2]) > color_distance(color, COLOR_MAP[i][2])

C4_NearestLowestIndex ==
  \A n \in DOMAIN calls :
    LET c == calls[n]
        i == NearestLowest(c.color)
    IN  /\ c.ret = <<i - 1, COLOR_MAP[i][1]>>
        /\ \A p \in 1..Len(COLOR_MAP) :
             c.color = COLOR_MAP[p][2] => c.ret = <<p - 1, COLOR_MAP[p][1]>>

\* A colour at equal least distance from entries 6 and 12 has been quantized to 6.
C4_Witness ==
  \E n \in DOMAIN calls :
    /\ calls[n].color = <<135, 515, 620>>
    /\ color_distance(calls[n].color, COLOR_MAP[7][2]) = color_distance(calls[n].color, COLOR_MAP[13][2])
    /\ calls[n].ret = <<6, "6">>

(***************************************************************************)
(* C5 (as claimed): every face of an object whose material has a linked    *)
(* base colour and no linked image texture carries, in its c= field, the   *)
(* palette index of that base colour, wherever the object stands in the    *)
(* scene.  The code violates it when an earlier object supplied an image.  *)
(***************************************************************************)
C5_BaseColorDrivesFaceColor ==
  \A i \in Processed :
    LET obj == objects[i].object
    IN  (HasLinked(obj, "BSDF_PRINCIPLED") /\ ~HasLinked(obj, "TEX_IMAGE")) =>
          LET base == obj.material.nodes[FirstLinked(obj.material.nodes, "BSDF_PRINCIPLED")].base_color
              cs   == FaceColors(BlockOf(i))
          IN  /\ Len(cs) = Len(obj.polygons)
              /\ \A n \in DOMAIN cs : cs[n] = ToString(Scan(base)[1])

(***************************************************************************)
(* C6 (as claimed): in a written document whose texture block encodes an   *)
(* image, the uv list of every face with UV data has one pair per vertex,  *)
(* each (u * width / 8, v * height / 8) for the width and height of that   *)
(* image.  The code violates it when the image is found after the first    *)
(* mesh object: width and height were fixed at 128 by then.                *)
(***************************************************************************)
ExpectedUvs(f, w, h) ==
  Join(",", [m \in 1..Len(f.uv) |-> <<UvText(f.uv[m][1], w), ",", UvText(f.uv[m][2], h)>>])

C6_UvScaledByTextureSize ==
  (pc = "done" /\ image # NoImage) =>
    \A i \in Processed :
      LET obj == objects[i].object
          uvs == FaceUvs(BlockOf(i))
      IN  obj.uv_layers > 0 =>
            /\ Len(uvs) = Len(obj.polygons)
            /\ \A n \in DOMAIN uvs :
                 /\ Len(uvs[n]) = 4 * Len(obj.polygons[n].vertices) - 1
                 /\ uvs[n] = ExpectedUvs(obj.polygons[n], image.size[1], image.size[2])

(***************************************************************************)
(* C7 (as claimed): the texture block of every written document is 128     *)
(* lines of 128 characters.                                                *)
(***************************************************************************)
C7_TextureIs128By128 == \A n \in DOMAIN file : IsGrid(TextureBlock(file[n]), 128, 128)

(***************************************************************************)
(* C7 (amended): every line of the texture block has 128 characters; the   *)
(* block has 120 lines when it is the default texture and                  *)
(* (width * height) div 128 lines when it encodes an image, which is 128   *)
(* lines only for a 128 x 128 image.                                       *)
(***************************************************************************)
C7_TextureRowsOf128 ==
  \A n \in DOMAIN file :
    IsGrid(TextureBlock(file[n]),
           IF image = NoImage THEN 120 ELSE (image.size[1] * image.size[2]) \div 128,
           128)

C7_Witness ==
  /\ pc = "done"
  /\ image = ImageSmall
  /\ Len(file) = 1
  /\ IsGrid(TextureBlock(file[1]), 1, 128)

(***************************************************************************)
(* C8 (as claimed): every object whose material has neither a linked       *)
(* image texture nor a linked base colour gets colour index 6 on its       *)
(* faces, and the export records a warning.                                *)
(***************************************************************************)
Unresolved(obj) ==
  /\ obj.material_slots > 0
  /\ ~HasLinked(obj, "TEX_IMAGE")
  /\ ~HasLinked(obj, "BSDF_PRINCIPLED")

DefaultColored(i) ==
  LET cs == FaceColors(BlockOf(i))
  IN  /\ Len(cs) = Len(objects[i].object.polygons)
      /\ \A n \in DOMAIN cs : cs[n] = "6"

C8_UnresolvedMaterialWarns ==
  \A i \in Processed : Unresolved(objects[i].object) => (DefaultColored(i) /\ warnings # <<>>)

(***************************************************************************)
(* C8 (amended): every object whose material has neither a linked image    *)
(* texture nor a linked base colour gets colour index 6 on its faces; the  *)
(* warning about the material is recorded once per object whose material   *)
(* does not use nodes, and for no other object: a node graph in which      *)
(* nothing is linked gets index 6 without a warning.                       *)
(***************************************************************************)
C8_DefaultColorWarnsOnlyWithoutNodes ==
  /\ \A i \in Processed : Unresolved(objects[i].object) => DefaultColored(i)
  /\ Cardinality({n \in DOMAIN warnings : warnings[n] = NodesWarning})
       = Cardinality({i \in Processed : /\ objects[i].object.material_slots > 0
                                        /\ ~objects[i].object.material.use_nodes})

\* A node graph with nothing linked has been exported alone: index 6, no warning.
C8_Witness ==
  /\ pc = "done"
  /\ Len(objects) = 1
  /\ 1 \in Processed
  /\ objects[1].object.material.use_nodes
  /\ Unresolved(objects[1].object)
  /\ DefaultColored(1)
  /\ warnings = <<>>

(***************************************************************************)
(* C9 (as claimed): when an export starts, the cache is empty.             *)
(***************************************************************************)
C9_CacheEmptyAtStart ==
  [][(pc \in {"idle", "done"} /\ pc' = "loop") => COLOR_CACHE = EmptyCache]_vars

(***************************************************************************)
(* C9 (amended): the cache is empty only until the first export; no step   *)
(* removes or changes an entry, so every entry an earlier export wrote is  *)
(* present, unchanged, when the next export starts, and the cache is not   *)
(* empty then.                                                             *)
(***************************************************************************)
C9_CacheNeverCleared ==
  [][/\ \A k \in DOMAIN COLOR_CACHE : k \in DOMAIN COLOR_CACHE' /\ COLOR_CACHE'[k] = COLOR_CACHE[k]
     /\ (pc = "done" /\ pc' = "loop") => COLOR_CACHE # EmptyCache
     /\ (pc = "idle" /\ pc' = "loop") => COLOR_CACHE = EmptyCache]_vars

\* A second export has started and the cache holds a colour of the first one.
C9_Witness ==
  /\ exports = 2
  /\ pc = "loop"
  /\ idx = 1
  /\ \E k \in DOMAIN COLOR_CACHE : k # host.world_color

(***************************************************************************)
(* C10: after every step, every cache entry is the pair the uncached       *)
(* search returns for its key; every call returns that pair for its        *)
(* argument, whatever the cache held, and a call whose argument was        *)
(* cached before the step is served from the cache with the cached pair.   *)
(***************************************************************************)
C10_CacheAgreesWithScan ==
  [][/\ \A k \in DOMAIN COLOR_CACHE' : COLOR_CACHE'[k] = Scan(k)
     /\ \A n \in DOMAIN calls' :
          LET c == calls'[n]
          IN  /\ c.ret = Scan(c.color)
              /\ c.color \in DOMAIN COLOR_CACHE'
              /\ c.color \in DOMAIN COLOR_CACHE => (c.hit /\ c.ret = COLOR_CACHE[c.color])]_vars

\* In a second export a call has been served from the cache.
C10_Witness ==
  /\ exports = 2
  /\ \E n \in DOMAIN calls : calls[n].hit /\ calls[n].ret = COLOR_CACHE[calls[n].color]

(***************************************************************************)
(* C11: the texture block written for a 128 x 128 image is the image       *)
(* flipped vertically and nothing else: line k (0-based, from the top)     *)
(* holds the codes of the pixels of source row 127 - k from left to        *)
(* right; the lines are separated by one newline each and no newline       *)
(* follows the last one.                                                   *)
(***************************************************************************)
C11_VerticalFlipOnly ==
  \A n \in DOMAIN file :
    image.size = <<128, 128>> =>
      LET t    == TextureBlock(file[n])
          code == [q \in 1..4 |-> Scan(image.colors[q])[2]]
      IN  /\ Len(t) = 128 * 129 - 1
          /\ \A k \in 0..127 : \A c \in 0..127 :
               t[129 * k + c + 1] = code[Quadrant(image, 128 * (127 - k) + c)]
          /\ \A k \in 1..127 : t[129 * k] = "\n"

\* A 128 x 128 image (red, blue / white, black quadrants from its first row on)
\* has been written: white and black lead, red and blue close the block.
C11_Witness ==
  /\ pc = "done"
  /\ image = Image128
  /\ Len(file) = 1
  /\ LET t == TextureBlock(file[1])
     IN  /\ t[1] = "7"
         /\ t[128] = "0"
         /\ t[129 * 127 + 1] = "8"
         /\ t[Len(t)] = "c"

(***************************************************************************)
(* C12 (as claimed): in every written document of a scene with a mesh      *)
(* object, empty vertex and face lists included, every opening brace has   *)
(* its closing brace and no separator comma stands directly before a       *)
(* closing brace.  The code violates it on an empty list: the slice that   *)
(* removes the last separator removes the list's opening brace instead.    *)
(* (The scene without any mesh object is the case of C2.)                  *)
(***************************************************************************)
\* The braces of a piece of text, in order: 1 opens, -1 closes.
Braces(piece) ==
  CASE piece \in {"{", "  {", "', pos={"} -> <<1>>
    [] piece = "}, rot={0,0,0}"           -> <<-1, 1, -1>>
    [] piece \in {" }", "}", "}%"}        -> <<-1>>
    [] piece = "} }"                      -> <<-1, -1>>
    [] OTHER                              -> <<>>

\* The nesting depth after the braces of doc[i..], from depth d; -1 once a
\* closing brace has no opening one.
RECURSIVE Depth(_, _, _)
Depth(events, i, d) ==
  IF d < 0 THEN -1
  ELSE IF i > Len(events) THEN d
  ELSE Depth(events, i + 1, d + events[i])

Balanced(doc) == Depth(Flatten([i \in 1..Len(doc) |-> Braces(doc[i])]), 1, 0) = 0

Closes(piece) == Braces(piece) # <<>> /\ Braces(piece)[1] = -1

\* No separator is followed, directly or after a newline, by a closing brace.
SeparatorClean(doc) ==
  \A i \in 1..(Len(doc) - 1) :
    doc[i] \in {",", ", "} =>
      /\ ~Closes(doc[i + 1])
      /\ (doc[i + 1] = "\n" /\ i + 2 <= Len(doc)) => ~Closes(doc[i + 2])

C12_ListsWellFormed ==
  \A n \in DOMAIN file :
    MeshPositions(objects) # {} =>
      (Balanced(Body(file[n])) /\ SeparatorClean(Body(file[n])))

(***************************************************************************)
(* C13 (as claimed): no step of an export changes the scene: while execute *)
(* runs, every field of every object keeps its value.  The code violates   *)
(* it: the loop sets rotation_mode of every mesh object it exports.        *)
(***************************************************************************)
C13_SceneUnchanged ==
  [][(pc \in {"loop", "texture", "write"}) => (objects' = objects)]_vars

(***************************************************************************)
(* C14: an export writes the file at most once, and only the complete      *)
(* document: the header line, one block per mesh object in scene order,    *)
(* the closing marker and the texture block.  Until then, and when the     *)
(* export stops in the loop, nothing has been written.                     *)
(***************************************************************************)
\* The names of the object blocks of a document, in order.
BlockNames(doc) ==
  LET at == Positions(doc, " name='")
  IN  [k \in 1..Cardinality(at) |-> doc[Nth(at, k) + 1]]

\* The names of the scene's mesh objects, in scene order.
MeshNames ==
  LET at == MeshPositions(objects)
  IN  [k \in 1..Cardinality(at) |-> objects[Nth(at, k)].name]

\* The texture block the export's image stands for.
TextureOf(img) ==
  IF img = NoImage THEN DEFAULT_TEXTURE
  ELSE TextureText(img, CallAll(EmptyCache, DistinctColors(img)).calls)

Complete(doc) ==
  /\ Len(doc) >= 6
  /\ SubSeq(doc, 1, 6) = <<"picocad;", IF host.stem = "" THEN "untitled" ELSE host.stem, ";16;",
                           ToString(Scan(host.world_color)[1]), ";0", "\n">>
  /\ BlockNames(doc) = MeshNames
  /\ Cardinality(Positions(doc, "}%")) = 1
  /\ \A p \in Positions(doc, " name='") : p < Nth(Positions(doc, "}%"), 1)
  /\ doc[Nth(Positions(doc, "}%"), 1) + 1] = "\n"
  /\ TextureBlock(doc) = TextureOf(image)

C14_WrittenOnceWhenComplete ==
  /\ pc \in {"loop", "texture", "write", "failed"} => file = <<>>
  /\ pc = "done" => (Len(file) = 1 /\ file[1] = output /\ Complete(file[1]))

\* An export has stopped at its second object, the first one's block built: no file.
C14_Witness ==
  /\ pc = "failed"
  /\ idx = 2
  /\ BlockNames(output) = <<"ob1">>
  /\ file = <<>>

====
